---- MODULE Spec2Model ----
(***************************************************************************)
(* Model of src/src/main.ts of gh-setup-envshed: the exported functions    *)
(* getInputs, buildUrl, formatEnvFile and run.                              *)
(*                                                                         *)
(* Text that the code builds character by character (URLs, escaped values, *)
(* the env-file content) is a sequence of one-character strings.  Messages *)
(* (template literals) are sequences of parts, each part either a literal  *)
(* of the source or an interpolated value.                                 *)
(***************************************************************************)
EXTENDS Integers, Sequences, FiniteSets, TLC

\* ------------------------------------------------------------------ bounds
\* Longest value handed to formatEnvFile as the only entry of a map.
MaxValLen == 3
\* Most entries of a secrets map.
MaxEntries == 2
\* Longest slug handed to buildUrl.
MaxSlugLen == 2

\* --------------------------------------------------------------- characters
BS == "\\"
DQ == "\""
LF == "\n"
CR == "\r"

Digits == {"0", "1", "2", "3", "4", "5", "6", "7", "8", "9"}

RECURSIVE SeqsUpTo(_, _)
\* All sequences over S of length at most n.
SeqsUpTo(S, n) ==
  IF n = 0 THEN {<<>>}
  ELSE LET shorter == SeqsUpTo(S, n - 1)
       IN  shorter \cup {Append(s, c) : s \in {t \in shorter : Len(t) = n - 1}, c \in S}

RECURSIVE Flatten(_)
\* Concatenation of a sequence of sequences.
Flatten(ss) == IF ss = <<>> THEN <<>> ELSE Head(ss) \o Flatten(Tail(ss))

RECURSIVE Join(_, _)
\* Array.prototype.join: the elements separated by sep; "" for no element.
Join(ss, sep) ==
  IF ss = <<>> THEN <<>>
  ELSE IF Len(ss) = 1 THEN Head(ss)
  ELSE Head(ss) \o sep \o Join(Tail(ss), sep)

RECURSIVE ReplaceAll(_, _, _)
\* String.prototype.replace with a global one-character pattern.
ReplaceAll(s, c, rep) ==
  IF s = <<>> THEN <<>>
  ELSE (IF Head(s) = c THEN rep ELSE <<Head(s)>>) \o ReplaceAll(Tail(s), c, rep)

\* ------------------------------------------------------- Object.entries
\* A JS object with string values is the sequence of its [key, value]
\* properties in creation order (the order the JSON body lists them).

DigitVal(c) ==
  CASE c = "0" -> 0 [] c = "1" -> 1 [] c = "2" -> 2 [] c = "3" -> 3 [] c = "4" -> 4
    [] c = "5" -> 5 [] c = "6" -> 6 [] c = "7" -> 7 [] c = "8" -> 8 [] c = "9" -> 9

RECURSIVE KeyIndex(_)
\* Numeric value of a key made of digits.
KeyIndex(k) ==
  IF k = <<>> THEN 0
  ELSE KeyIndex(SubSeq(k, 1, Len(k) - 1)) * 10 + DigitVal(k[Len(k)])

\* A canonical array index: decimal digits without a leading zero.
IsArrayIndex(k) ==
  /\ k # <<>>
  /\ \A i \in 1..Len(k) : k[i] \in Digits
  /\ (Len(k) > 1 => k[1] # "0")
  /\ Len(k) <= 9

RECURSIVE SortByIndex(_)
\* The entries of a set of array-index entries, ascending by index.
SortByIndex(es) ==
  IF es = {} THEN <<>>
  ELSE LET lo == CHOOSE e \in es : \A f \in es : KeyIndex(e.key) <= KeyIndex(f.key)
       IN  <<lo>> \o SortByIndex(es \ {lo})

ObjectEntriesInsertionOrder(obj) == obj

\* Object.entries: array-index keys first, ascending, then the other keys in
\* creation order.
ObjectEntries(obj) ==
  SortByIndex({obj[i] : i \in {j \in 1..Len(obj) : IsArrayIndex(obj[j].key)}})
    \o SelectSeq(obj, LAMBDA e : ~IsArrayIndex(e.key))

\* --------------------------------------------------------------- buildUrl
LowerLetters ==
  {"a", "b", "c", "d", "e", "f", "g", "h", "i", "j", "k", "l", "m",
   "n", "o", "p", "q", "r", "s", "t", "u", "v", "w", "x", "y", "z"}

\* The characters encodeURIComponent keeps (upper-case letters are not used).
Unreserved ==
  LowerLetters \cup Digits \cup {"-", "_", ".", "!", "~", "*", "'", "(", ")"}

\* The UTF-8 percent-escape of a character encodeURIComponent does not keep.
PctEscape(c) ==
  CASE c = "/" -> <<"%", "2", "F">>
    [] c = " " -> <<"%", "2", "0">>
    [] c = "&" -> <<"%", "2", "6">>
    [] c = "%" -> <<"%", "2", "5">>
    [] c = "?" -> <<"%", "3", "F">>
    [] c = "#" -> <<"%", "2", "3">>

\* encodeURI keeps the reserved characters ; / ? : @ & = + $ , #
EncodeURIReserved == {"/", "&", "?", "#"}

RECURSIVE encodeURI(_)
encodeURI(s) ==
  IF s = <<>> THEN <<>>
  ELSE (IF Head(s) \in Unreserved \cup EncodeURIReserved THEN <<Head(s)>>
        ELSE PctEscape(Head(s))) \o encodeURI(Tail(s))

RECURSIVE encodeURIComponent(_)
encodeURIComponent(s) ==
  IF s = <<>> THEN <<>>
  ELSE (IF Head(s) \in Unreserved THEN <<Head(s)>> ELSE PctEscape(Head(s)))
         \o encodeURIComponent(Tail(s))

SecretsPath == <<"/", "a", "p", "i", "/", "v", "1", "/", "s", "e", "c", "r", "e", "t", "s", "/">>

buildUrlEncodeURI(inputs) ==
  inputs.apiUrl \o SecretsPath \o encodeURI(inputs.org) \o <<"/">>
    \o encodeURI(inputs.project) \o <<"/">> \o encodeURI(inputs.environment)

buildUrl(inputs) ==
  inputs.apiUrl \o SecretsPath \o encodeURIComponent(inputs.org) \o <<"/">>
    \o encodeURIComponent(inputs.project) \o <<"/">>
    \o encodeURIComponent(inputs.environment)

\* ----------------------------------------------------------- formatEnvFile
escapeValueBackslashLast(value) ==
  ReplaceAll(ReplaceAll(ReplaceAll(ReplaceAll(value, DQ, <<BS, DQ>>),
                                   LF, <<BS, "n">>),
                        CR, <<BS, "r">>),
             BS, <<BS, BS>>)

\* The chain of four replace calls, in the order the code applies them.
escapeValue(value) ==
  ReplaceAll(ReplaceAll(ReplaceAll(ReplaceAll(value, BS, <<BS, BS>>),
                                   DQ, <<BS, DQ>>),
                        LF, <<BS, "n">>),
             CR, <<BS, "r">>)

formatLine(e) == e.key \o <<"=", DQ>> \o escapeValue(e.value) \o <<DQ>>

\* Object.entries(secrets).map(...)
formatLines(secrets) ==
  LET es == ObjectEntries(secrets)
  IN  [i \in 1..Len(es) |-> formatLine(es[i])]

formatEnvFileNoTrailingNewline(secrets) == Join(formatLines(secrets), <<LF>>)

formatEnvFile(secrets) == Join(formatLines(secrets), <<LF>>) \o <<LF>>

\* ------------------------------------------------------------ path.resolve
\* The working directory of the process.
Cwd == <<"/", "w", "/", "d">>

RECURSIVE SplitAt(_, _)
\* String.prototype.split with a one-character separator.
SplitAt(s, sep) ==
  IF \A i \in 1..Len(s) : s[i] # sep THEN <<s>>
  ELSE LET i == CHOOSE j \in 1..Len(s) :
                  s[j] = sep /\ \A k \in 1..(j - 1) : s[k] # sep
       IN  <<SubSeq(s, 1, i - 1)>> \o SplitAt(SubSeq(s, i + 1, Len(s)), sep)

RECURSIVE NormalizeSegments(_, _)
\* Drops "" and "." segments; ".." removes the segment before it.
NormalizeSegments(todo, done) ==
  IF todo = <<>> THEN done
  ELSE LET h == Head(todo)
       IN  IF h = <<>> \/ h = <<".">> THEN NormalizeSegments(Tail(todo), done)
           ELSE IF h = <<".", ".">>
             THEN NormalizeSegments(Tail(todo),
                                    IF done = <<>> THEN done
                                    ELSE SubSeq(done, 1, Len(done) - 1))
           ELSE NormalizeSegments(Tail(todo), Append(done, h))

\* path.resolve(p) on POSIX: an absolute p is normalized, a relative p is
\* taken from the working directory.
pathResolve(p) ==
  LET full == IF p # <<>> /\ p[1] = "/" THEN p ELSE Cwd \o <<"/">> \o p
      segs == NormalizeSegments(SplitAt(full, "/"), <<>>)
  IN  IF segs = <<>> THEN <<"/">>
      ELSE Flatten([i \in 1..Len(segs) |-> <<"/">> \o segs[i]])

\* ---------------------------------------------------------------- messages
Lit(s) == [k |-> "lit", v |-> s]
Str(s) == [k |-> "str", v |-> s]
Num(n) == [k |-> "num", v |-> n]

\* ----------------------------------------------------------------- inputs
EnvMode == <<"e", "n", "v">>
FileMode == <<"f", "i", "l", "e">>
StdoutMode == <<"s", "t", "d", "o", "u", "t">>

DefaultEnvironment == <<"p", "r", "o", "d", "u", "c", "t", "i", "o", "n">>
DefaultApiUrl ==
  <<"h", "t", "t", "p", "s", ":", "/", "/", "a", "p", "p", ".",
    "e", "n", "v", "s", "h", "e", "d", ".", "c", "o", "m">>
DefaultFilePath == <<".", "e", "n", "v">>
LocalApiUrl == <<"h", "t", "t", "p", ":", "/", "/", "l", ":", "9">>

Token1 == <<"t", "o", "k">>
Token2 == <<"a", "b", "c">>

\* a || b on strings: the empty string is falsy.
OrDefault(a, b) == IF a # <<>> THEN a ELSE b

\* The first required input that is not supplied, in the order getInputs
\* reads them; <<>> when none is missing.
MissingRequired(raw) ==
  IF raw.token = <<>> THEN "token"
  ELSE IF raw.org = <<>> THEN "org"
  ELSE IF raw.project = <<>> THEN "project"
  ELSE ""

getInputs(raw) ==
  [token |-> raw.token, org |-> raw.org, project |-> raw.project,
   environment |-> OrDefault(raw.environment, DefaultEnvironment),
   apiUrl |-> OrDefault(raw.apiUrl, DefaultApiUrl),
   exportTo |-> OrDefault(raw.exportTo, EnvMode),
   filePath |-> OrDefault(raw.filePath, DefaultFilePath)]

NoInputs ==
  [token |-> <<>>, org |-> <<>>, project |-> <<>>, environment |-> <<>>,
   apiUrl |-> <<>>, exportTo |-> <<>>, filePath |-> <<>>]

\* The input source of a run: what core.getInput returns for each name.
RawInputs ==
  [token : {<<>>, Token1},
   org : {<<>>, <<"o", "/">>},
   project : {<<>>, <<"p">>},
   environment : {<<>>, <<"e", "&">>},
   apiUrl : {<<>>, LocalApiUrl},
   exportTo : {<<>>, EnvMode, FileMode, StdoutMode},
   filePath : {<<>>, <<".", ".", "/", "o">>, <<"/", "t", "/", "o">>}]

\* ---------------------------------------------------------------- responses
SecretKeys == {<<"B">>, <<"A">>, <<"2">>}
\* Keys of the maps handed to formatEnvFile directly: two array indices too.
FormatKeys == SecretKeys \cup {<<"1", "0">>}
SecretValues == {<<>>, <<"a">>, <<DQ, LF>>}

Entry(k, v) == [key |-> k, value |-> v]

RECURSIVE MapsUpTo(_, _, _)
\* The objects of at most n properties with keys of K and values of V, in
\* every creation order.
MapsUpTo(K, V, n) ==
  IF n = 0 THEN {<<>>}
  ELSE LET smaller == MapsUpTo(K, V, n - 1)
           full == {t \in smaller : Len(t) = n - 1}
       IN  smaller \cup
             UNION {{Append(m, Entry(k, v)) :
                       k \in K \ {m[i].key : i \in 1..Len(m)}, v \in V} :
                    m \in full}

SecretMaps == MapsUpTo(SecretKeys, SecretValues, MaxEntries)

DecryptErrorLists ==
  {[tag |-> "absent", list |-> <<>>],
   [tag |-> "list", list |-> <<>>],
   [tag |-> "list", list |-> << <<"K">>, <<"L">> >>]}

Versions == {1, 7}

NullBody ==
  [body |-> "null", secretsTag |-> "absent", secrets |-> <<>>,
   decryptErrors |-> [tag |-> "absent", list |-> <<>>], version |-> 0]

\* Parsed bodies: null, an object without secrets, an object whose secrets
\* is null, and objects whose secrets is a map.
Bodies ==
  {NullBody}
    \cup {[body |-> "object", secretsTag |-> t, secrets |-> <<>>,
           decryptErrors |-> d, version |-> v] :
            t \in {"absent", "null"}, d \in DecryptErrorLists, v \in Versions}
    \cup {[body |-> "object", secretsTag |-> "map", secrets |-> m,
           decryptErrors |-> d, version |-> v] :
            m \in SecretMaps, d \in DecryptErrorLists, v \in Versions}

ErrorBodies ==
  {NullBody,
   [body |-> "object", secretsTag |-> "map",
    secrets |-> <<Entry(<<"B">>, <<"a">>)>>,
    decryptErrors |-> [tag |-> "list", list |-> << <<"K">>, <<"L">> >>],
    version |-> 7]}

StatusOk == 200
ErrorStatuses == {201, 401, 403, 404}

Responses ==
  {[statusCode |-> StatusOk, result |-> b] : b \in Bodies}
    \cup {[statusCode |-> c, result |-> b] : c \in ErrorStatuses, b \in ErrorBodies}

NoResponse == [statusCode |-> 0, result |-> NullBody]

\* ------------------------------------------------- arguments of direct calls
SlugAlphabet == {"a", "/", " ", "&", "%"}
Slugs == SeqsUpTo(SlugAlphabet, MaxSlugLen)

UrlInputs ==
  [token : {Token1, Token2},
   org : Slugs,
   project : Slugs,
   environment : {DefaultEnvironment, <<"e", "&">>},
   apiUrl : {DefaultApiUrl},
   exportTo : {EnvMode},
   filePath : {DefaultFilePath}]

ValueAlphabet == {BS, DQ, LF, CR, "n", "r", "a"}
LongValues == SeqsUpTo(ValueAlphabet, MaxValLen)

FormatInputs ==
  {<<Entry(<<"K">>, v)>> : v \in LongValues}
    \cup MapsUpTo(FormatKeys, SecretValues, MaxEntries)

\* -------------------------------------------------------------------- state
VARIABLES
  entry,     \* the exported function that is called: run, buildUrl, formatEnvFile
  arg,       \* its argument; for run, the input source core.getInput reads
  ret,       \* the value a direct call of buildUrl or formatEnvFile returned
  pc,        \* the position of the call
  inputs,    \* run: const inputs
  response,  \* run: const response
  entries,   \* run: const entries
  idx,       \* run: the index of the entry the for loop is at
  calls,     \* the side effects so far, in order: get, mask, export, write, info, warning
  error      \* the message of the error run() rejects with

vars == <<entry, arg, ret, pc, inputs, response, entries, idx, calls, error>>

Call(op, a, b) == [op |-> op, a |-> a, b |-> b]

Init ==
  /\ \/ entry = "run" /\ arg \in RawInputs /\ pc = "getInputs"
     \/ entry = "buildUrl" /\ arg \in UrlInputs /\ pc = "call"
     \/ entry = "formatEnvFile" /\ arg \in FormatInputs /\ pc = "call"
  /\ ret = <<>>
  /\ inputs = NoInputs
  /\ response = NoResponse
  /\ entries = <<>>
  /\ idx = 1
  /\ calls = <<>>
  /\ error = <<>>

\* ------------------------------------------------------------- direct calls
CallBuildUrl ==
  /\ entry = "buildUrl" /\ pc = "call"
  /\ ret' = buildUrl(arg)
  /\ pc' = "returned"
  /\ UNCHANGED <<entry, arg, inputs, response, entries, idx, calls, error>>

CallFormatEnvFile ==
  /\ entry = "formatEnvFile" /\ pc = "call"
  /\ ret' = formatEnvFile(arg)
  /\ pc' = "returned"
  /\ UNCHANGED <<entry, arg, inputs, response, entries, idx, calls, error>>

\* ---------------------------------------------------------------------- run
Throw(msg) ==
  /\ error' = msg
  /\ pc' = "rejected"

\* const inputs = getInputs(); a required input that is not supplied throws.
RunGetInputs ==
  /\ entry = "run" /\ pc = "getInputs"
  /\ IF MissingRequired(arg) # ""
       THEN /\ Throw(<<Lit("Input required and not supplied: "),
                       Lit(MissingRequired(arg))>>)
            /\ UNCHANGED inputs
       ELSE /\ inputs' = getInputs(arg)
            /\ pc' = "checkExportTo"
            /\ UNCHANGED error
  /\ UNCHANGED <<entry, arg, ret, response, entries, idx, calls>>

ExportToOkNoCheck(exportTo) == TRUE

ExportToOk(exportTo) == ~(exportTo # EnvMode /\ exportTo # FileMode)

InvalidExportToMessage(exportTo) ==
  <<Lit("Invalid export-to value: \""), Str(exportTo),
    Lit("\". Must be \"env\" or \"file\".")>>

RunCheckExportTo ==
  /\ entry = "run" /\ pc = "checkExportTo"
  /\ IF ~ExportToOk(inputs.exportTo)
       THEN Throw(InvalidExportToMessage(inputs.exportTo))
       ELSE pc' = "getJson" /\ UNCHANGED error
  /\ UNCHANGED <<entry, arg, ret, inputs, response, entries, idx, calls>>

BearerHeader(token) == <<"B", "e", "a", "r", "e", "r", " ">> \o token

\* new HttpClient(...); const url = buildUrl(inputs); client.getJson(url)
RunGetJson ==
  /\ entry = "run" /\ pc = "getJson"
  /\ calls' = Append(calls, Call("get", buildUrl(inputs), BearerHeader(inputs.token)))
  /\ pc' = "await"
  /\ UNCHANGED <<entry, arg, ret, inputs, response, entries, idx, error>>

\* The awaited promise resolves with a status code and a parsed body.
RunGetJsonResolves ==
  /\ entry = "run" /\ pc = "await"
  /\ \E r \in Responses : response' = r
  /\ pc' = "checkStatus"
  /\ UNCHANGED <<entry, arg, ret, inputs, entries, idx, calls, error>>

\* The awaited promise rejects (a network failure): run() rejects with it.
RunGetJsonRejects ==
  /\ entry = "run" /\ pc = "await"
  /\ Throw(<<[k |-> "ext", v |-> "getJson rejection"]>>)
  /\ UNCHANGED <<entry, arg, ret, inputs, response, entries, idx, calls>>

StatusOkAlways(statusCode) == TRUE

StatusIsOk(statusCode) == ~(statusCode # StatusOk)

FetchFailedMessageWithToken(statusCode) ==
  <<Lit("Failed to fetch secrets from Envshed (HTTP "), Num(statusCode),
    Lit(") with token "), Str(inputs.token), Lit(". "),
    Lit("Verify your token, org, project, and environment are correct.")>>

FetchFailedMessage(statusCode) ==
  <<Lit("Failed to fetch secrets from Envshed (HTTP "), Num(statusCode), Lit("). "),
    Lit("Verify your token, org, project, and environment are correct.")>>

RunCheckStatus ==
  /\ entry = "run" /\ pc = "checkStatus"
  /\ IF ~StatusIsOk(response.statusCode)
       THEN Throw(FetchFailedMessage(response.statusCode))
       ELSE pc' = "checkResult" /\ UNCHANGED error
  /\ UNCHANGED <<entry, arg, ret, inputs, response, entries, idx, calls>>

HasSecretsFieldPresent(result) ==
  result.body # "null" /\ result.secretsTag # "absent"

\* !(!response.result || !response.result.secrets): null and an absent or
\* null secrets are falsy, a map (also the empty map) is truthy.
HasSecrets(result) == ~(result.body = "null" \/ result.secretsTag # "map")

MissingSecretsMessage ==
  <<Lit("Unexpected response from Envshed API: missing secrets field.")>>

RunCheckResult ==
  /\ entry = "run" /\ pc = "checkResult"
  /\ IF ~HasSecrets(response.result)
       THEN Throw(MissingSecretsMessage)
       ELSE pc' = "decryptErrors" /\ UNCHANGED error
  /\ UNCHANGED <<entry, arg, ret, inputs, response, entries, idx, calls>>

\* decryptErrors.join(", ")
JoinNames(names) ==
  Flatten([i \in 1..Len(names) |->
             IF i = 1 THEN <<Str(names[i])>> ELSE <<Lit(", "), Str(names[i])>>])

DecryptWarning(names) ==
  <<Lit("Some secrets could not be decrypted: ")>> \o JoinNames(names)

HasDecryptErrorsAnyList(d) == d.tag # "absent"

\* decryptErrors && decryptErrors.length > 0
HasDecryptErrors(d) == d.tag # "absent" /\ Len(d.list) > 0

RunDecryptErrors ==
  /\ entry = "run" /\ pc = "decryptErrors"
  /\ calls' = IF HasDecryptErrors(response.result.decryptErrors)
                THEN Append(calls, Call("warning",
                                        DecryptWarning(response.result.decryptErrors.list),
                                        <<>>))
                ELSE calls
  /\ pc' = "entries"
  /\ UNCHANGED <<entry, arg, ret, inputs, response, entries, idx, error>>

NoSecretsWarning == <<Lit("No secrets found for the specified environment.")>>

\* The empty case warns and goes on to the summary.
RunEntriesNoReturn ==
  /\ entry = "run" /\ pc = "entries"
  /\ entries' = ObjectEntries(response.result.secrets)
  /\ IF Len(entries') = 0
       THEN /\ calls' = Append(calls, Call("warning", NoSecretsWarning, <<>>))
            /\ pc' = "summary"
       ELSE /\ calls' = calls
            /\ pc' = IF inputs.exportTo = EnvMode THEN "envSetSecret" ELSE "fileSetSecret"
  /\ idx' = 1
  /\ UNCHANGED <<entry, arg, ret, inputs, response, error>>

\* const entries = Object.entries(secrets); the empty case warns and returns.
RunEntries ==
  /\ entry = "run" /\ pc = "entries"
  /\ entries' = ObjectEntries(response.result.secrets)
  /\ IF Len(entries') = 0
       THEN /\ calls' = Append(calls, Call("warning", NoSecretsWarning, <<>>))
            /\ pc' = "resolved"
       ELSE /\ calls' = calls
            /\ pc' = IF inputs.exportTo = EnvMode THEN "envSetSecret" ELSE "fileSetSecret"
  /\ idx' = 1
  /\ UNCHANGED <<entry, arg, ret, inputs, response, error>>

ShouldMaskAlways(value) == TRUE

ShouldMaskNever(value) == FALSE

\* if (value !== "") core.setSecret(value)
ShouldMask(value) == value # <<>>

\* env mode, loop body, first statement.
RunEnvSetSecret ==
  /\ entry = "run" /\ pc = "envSetSecret"
  /\ calls' = IF ShouldMask(entries[idx].value)
                THEN Append(calls, Call("mask", entries[idx].value, <<>>))
                ELSE calls
  /\ pc' = "envExport"
  /\ UNCHANGED <<entry, arg, ret, inputs, response, entries, idx, error>>

\* The export is left out for an empty value.
RunEnvExportSkipEmpty ==
  /\ entry = "run" /\ pc = "envExport"
  /\ calls' = IF entries[idx].value # <<>>
                THEN Append(calls, Call("export", entries[idx].key, entries[idx].value))
                ELSE calls
  /\ idx' = idx + 1
  /\ pc' = IF idx + 1 > Len(entries) THEN "summary" ELSE "envSetSecret"
  /\ UNCHANGED <<entry, arg, ret, inputs, response, entries, error>>

\* env mode, loop body, second statement, and the loop's step.
RunEnvExport ==
  /\ entry = "run" /\ pc = "envExport"
  /\ calls' = Append(calls, Call("export", entries[idx].key, entries[idx].value))
  /\ idx' = idx + 1
  /\ pc' = IF idx + 1 > Len(entries) THEN "summary" ELSE "envSetSecret"
  /\ UNCHANGED <<entry, arg, ret, inputs, response, entries, error>>

\* file mode, the masking loop.
RunFileSetSecret ==
  /\ entry = "run" /\ pc = "fileSetSecret"
  /\ calls' = IF ShouldMask(entries[idx].value)
                THEN Append(calls, Call("mask", entries[idx].value, <<>>))
                ELSE calls
  /\ idx' = idx + 1
  /\ pc' = IF idx + 1 > Len(entries) THEN "fileWrite" ELSE "fileSetSecret"
  /\ UNCHANGED <<entry, arg, ret, inputs, response, entries, error>>

\* fs.writeFileSync(path.resolve(inputs.filePath), formatEnvFile(secrets), "utf-8")
RunFileWrite ==
  /\ entry = "run" /\ pc = "fileWrite"
  /\ calls' = Append(calls, Call("write", pathResolve(inputs.filePath),
                                 formatEnvFile(response.result.secrets)))
  /\ pc' = "fileInfo"
  /\ UNCHANGED <<entry, arg, ret, inputs, response, entries, idx, error>>

RunFileInfo ==
  /\ entry = "run" /\ pc = "fileInfo"
  /\ calls' = Append(calls, Call("info",
                                 <<Lit("Wrote secrets to "),
                                   Str(pathResolve(inputs.filePath))>>, <<>>))
  /\ pc' = "summary"
  /\ UNCHANGED <<entry, arg, ret, inputs, response, entries, idx, error>>

SummaryMessageAlwaysPlural(count, version) ==
  <<Lit("Loaded "), Num(count), Lit(" secret"), Lit("s"),
    Lit(" from Envshed (v"), Num(version), Lit(").")>>

SummaryMessage(count, version) ==
  <<Lit("Loaded "), Num(count), Lit(" secret"),
    Lit(IF count = 1 THEN "" ELSE "s"),
    Lit(" from Envshed (v"), Num(version), Lit(").")>>

RunSummary ==
  /\ entry = "run" /\ pc = "summary"
  /\ calls' = Append(calls, Call("info",
                                 SummaryMessage(Len(entries), response.result.version),
                                 <<>>))
  /\ pc' = "resolved"
  /\ UNCHANGED <<entry, arg, ret, inputs, response, entries, idx, error>>

Next ==
  \/ CallBuildUrl
  \/ CallFormatEnvFile
  \/ RunGetInputs
  \/ RunCheckExportTo
  \/ RunGetJson
  \/ RunGetJsonResolves
  \/ RunGetJsonRejects
  \/ RunCheckStatus
  \/ RunCheckResult
  \/ RunDecryptErrors
  \/ RunEntries
  \/ RunEnvSetSecret
  \/ RunEnvExport
  \/ RunFileSetSecret
  \/ RunFileWrite
  \/ RunFileInfo
  \/ RunSummary

Spec == Init /\ [][Next]_vars

\* ------------------------------------------------------ reading the trace
Indices(op) == {i \in 1..Len(calls) : calls[i].op = op}

Count(op) == Cardinality(Indices(op))

\* The secrets object of the response, in creation order.
Secrets == response.result.secrets

NonEmptyEntries == {i \in 1..Len(Secrets) : Secrets[i].value # <<>>}

MaskedBefore(value, i) ==
  \E j \in 1..(i - 1) : calls[j].op = "mask" /\ calls[j].a = value

\* The response passed both checks of the Response Validator.
Validated ==
  /\ entry = "run"
  /\ pc \in {"decryptErrors", "entries", "envSetSecret", "envExport", "fileSetSecret",
             "fileWrite", "fileInfo", "summary", "resolved"}

\* getInputs returned (no required input was missing).
InputsResolved == entry = "run" /\ pc # "getInputs" /\ inputs # NoInputs

\* The awaited request resolved with a response.
Responded == entry = "run" /\ response # NoResponse

\* ----------------------------------------------------------------- claims

\* C1: in both delivery modes, at every point of a run, every export of a
\* non-empty value and the file write come after mask was called with that
\* value (for the write: with every non-empty value of the secrets).
C1_MaskBeforeUse ==
  \A i \in 1..Len(calls) :
    /\ (calls[i].op = "export" /\ calls[i].b # <<>>) => MaskedBefore(calls[i].b, i)
    /\ calls[i].op = "write" =>
         \A k \in NonEmptyEntries : MaskedBefore(Secrets[k].value, i)

C1_Witness ==
  /\ pc = "resolved"
  /\ \E i, j \in Indices("export") :
       /\ i < j
       /\ calls[i].b # <<>> /\ calls[j].b # <<>> /\ calls[i].b # calls[j].b
       /\ ~MaskedBefore(calls[j].b, i)

\* C2: after a run over a non-empty secrets map that completes without
\* error, the number of mask calls is the number of entries with a non-empty
\* value, and mask was never called with the empty string.
C2_MaskCount ==
  (entry = "run" /\ pc = "resolved" /\ Len(Secrets) > 0) =>
    /\ Count("mask") = Cardinality(NonEmptyEntries)
    /\ \A i \in Indices("mask") : calls[i].a # <<>>

C2_Witness ==
  /\ entry = "run" /\ pc = "resolved"
  /\ Len(Secrets) = 2
  /\ Cardinality(NonEmptyEntries) = 1
  /\ Count("mask") = 1

\* C3: when the resolved export-to value is neither "env" nor "file", the
\* run fails with the Invalid export-to error and issues no HTTP request and
\* no mask, export or file write.
C3_InvalidExportTo ==
  (InputsResolved /\ inputs.exportTo \notin {EnvMode, FileMode}) =>
    /\ pc \in {"checkExportTo", "rejected"}
    /\ calls = <<>>
    /\ pc = "rejected" =>
         error = <<Lit("Invalid export-to value: \""), Str(inputs.exportTo),
                   Lit("\". Must be \"env\" or \"file\".")>>

C3_Witness ==
  /\ InputsResolved
  /\ inputs.exportTo = StdoutMode
  /\ pc = "rejected"

\* C4: for every response whose status code is not 200, whatever its body,
\* the run fails with the Failed to fetch error, which interpolates the
\* status code and not the token, and performs no mask, export, file write
\* or info message.
C4_NonOkStatus ==
  (Responded /\ response.statusCode # 200) =>
    /\ pc \in {"checkStatus", "rejected"}
    /\ Len(calls) = 1 /\ calls[1].op = "get"
    /\ pc = "rejected" =>
         /\ error = <<Lit("Failed to fetch secrets from Envshed (HTTP "),
                      Num(response.statusCode), Lit("). "),
                      Lit("Verify your token, org, project, and environment are correct.")>>
         /\ \A i \in 1..Len(error) :
              ~(error[i].k = "str" /\ error[i].v = inputs.token)

C4_Witness ==
  /\ Responded
  /\ response.statusCode = 401
  /\ response.result.body = "object" /\ response.result.secretsTag = "map"
  /\ pc = "rejected"

\* C5 helpers: the run's only side effect so far is the request.
OnlyRequested == Len(calls) = 1 /\ calls[1].op = "get"

MissingSecretsText == "Unexpected response from Envshed API: missing secrets field."

FailsMissingSecrets ==
  /\ pc \in {"checkStatus", "checkResult", "rejected"}
  /\ OnlyRequested
  /\ pc = "rejected" => error = <<Lit(MissingSecretsText)>>

\* C5 as stated: a status-200 response whose body is null or has no secrets
\* field fails with the missing secrets field error and no mask, export or
\* write; a body that carries a secrets field never produces that error.
C5_Original ==
  (Responded /\ response.statusCode = 200) =>
    /\ (response.result.body = "null" \/ response.result.secretsTag = "absent")
         => FailsMissingSecrets
    /\ (response.result.body = "object" /\ response.result.secretsTag # "absent")
         => error # <<Lit(MissingSecretsText)>>

\* C5 as amended: the error is also raised when the secrets field is present
\* and null; a body whose secrets field is a map (also the empty map) never
\* produces it.
C5_MissingSecrets ==
  (Responded /\ response.statusCode = 200) =>
    /\ (response.result.body = "null" \/ response.result.secretsTag \in {"absent", "null"})
         => FailsMissingSecrets
    /\ (response.result.body = "object" /\ response.result.secretsTag = "map")
         => error # <<Lit(MissingSecretsText)>>

C5_Witness ==
  /\ Responded /\ response.statusCode = 200
  /\ response.result.body = "object" /\ response.result.secretsTag = "null"
  /\ pc = "rejected"
  /\ error = <<Lit(MissingSecretsText)>>

NoDelivery == Count("mask") = 0 /\ Count("export") = 0 /\ Count("write") = 0

EmptyRunDone == Validated /\ pc = "resolved" /\ Secrets = <<>>

\* C6 as stated: a run over a validated payload with an empty secrets map
\* emits exactly one warning, whatever decryptErrors holds, and makes no
\* mask, export or file-write call.
C6_Original == EmptyRunDone => (Count("warning") = 1 /\ NoDelivery)

\* C6 as amended: such a run emits the No secrets found warning exactly once,
\* after one decrypt warning when decryptErrors is non-empty (two warnings in
\* all then), and makes no mask, export or file-write call.
C6_EmptySecrets ==
  EmptyRunDone =>
    /\ Count("warning") =
         (IF response.result.decryptErrors.list # <<>> THEN 2 ELSE 1)
    /\ calls[Len(calls)].op = "warning"
    /\ calls[Len(calls)].a = <<Lit("No secrets found for the specified environment.")>>
    /\ \A i \in Indices("warning") :
         i # Len(calls) => calls[i].a[1] = Lit("Some secrets could not be decrypted: ")
    /\ NoDelivery

C6_Witness ==
  /\ EmptyRunDone
  /\ inputs.exportTo = FileMode
  /\ response.result.decryptErrors.list # <<>>
  /\ Count("warning") = 2

\* One line KEY="escaped_value" and a newline for each entry of a sequence.
LinesOf(es) ==
  Flatten([i \in 1..Len(es) |->
             es[i].key \o <<"=", DQ>> \o escapeValue(es[i].value) \o <<DQ, LF>>])

Permutations1(n) == {f \in [1..n -> 1..n] : \A i, j \in 1..n : f[i] = f[j] => i = j}

\* The orders of the properties of obj that property enumeration allows:
\* array-index keys ascending, then the other keys as created.
IterationOrders(obj) ==
  {[i \in 1..Len(obj) |-> obj[f[i]]] :
     f \in {g \in Permutations1(Len(obj)) :
              \A i, j \in 1..Len(obj) :
                i < j =>
                  LET a == obj[g[i]].key
                      b == obj[g[j]].key
                  IN  /\ (IsArrayIndex(a) /\ IsArrayIndex(b)) => KeyIndex(a) < KeyIndex(b)
                      /\ ~IsArrayIndex(a) => (~IsArrayIndex(b) /\ g[i] < g[j])}}

FileRunDone ==
  Validated /\ pc = "resolved" /\ inputs.exportTo = FileMode /\ Len(Secrets) > 0

WriteAfterAllMasks(w) ==
  /\ \A k \in NonEmptyEntries : MaskedBefore(Secrets[k].value, w)
  /\ \A m \in Indices("mask") : m < w

\* C7 as stated: a completed file-mode run over a non-empty map writes once,
\* to the resolved path, the serialization of the map in insertion order,
\* after mask was called for every non-empty value.
C7_Original ==
  FileRunDone =>
    /\ Count("write") = 1
    /\ \A w \in Indices("write") :
         /\ calls[w].a = pathResolve(inputs.filePath)
         /\ calls[w].b = LinesOf(Secrets)
         /\ WriteAfterAllMasks(w)

\* C7 as amended: the content lists the entries in the order Object.entries
\* enumerates them (array-index keys ascending, then the others in insertion
\* order).
C7_FileWrite ==
  FileRunDone =>
    /\ Count("write") = 1
    /\ \A w \in Indices("write") :
         /\ calls[w].a = pathResolve(inputs.filePath)
         /\ \E order \in IterationOrders(Secrets) : calls[w].b = LinesOf(order)
         /\ WriteAfterAllMasks(w)

C7_Witness ==
  /\ FileRunDone
  /\ Len(Secrets) = 2
  /\ Secrets[1].key = <<"B">> /\ Secrets[2].key = <<"2">>
  /\ Secrets[1].value # <<>> /\ Secrets[2].value # <<>>
  /\ inputs.filePath = <<".", ".", "/", "o">>
  /\ \E w \in Indices("write") :
       /\ calls[w].a = <<"/", "w", "/", "o">>
       /\ calls[w].b # LinesOf(Secrets)

RECURSIVE Unescape(_)
\* The inverse rule, left to right: a backslash and the character after it
\* stand for one character.
Unescape(s) ==
  IF s = <<>> THEN <<>>
  ELSE IF Head(s) = BS /\ Len(s) >= 2
    THEN LET c == s[2]
         IN  <<(CASE c = "n" -> LF [] c = "r" -> CR [] OTHER -> c)>>
               \o Unescape(SubSeq(s, 3, Len(s)))
  ELSE <<Head(s)>> \o Unescape(Tail(s))

RECURSIVE BackslashesBefore(_, _)
\* The number of consecutive backslashes that end right before position i.
BackslashesBefore(s, i) ==
  IF i > 1 /\ s[i - 1] = BS THEN 1 + BackslashesBefore(s, i - 1) ELSE 0

\* No raw newline, no raw carriage return, no double quote that is not
\* escaped, and no backslash left open at the end.
QuoteSafe(s) ==
  /\ \A i \in 1..Len(s) :
       /\ s[i] \notin {LF, CR}
       /\ s[i] = DQ => BackslashesBefore(s, i) % 2 = 1
  /\ BackslashesBefore(s, Len(s) + 1) % 2 = 0

FormatReturned == entry = "formatEnvFile" /\ pc = "returned"

\* The text between the quotes of the only line of a one-entry file.
QuotedPart == SubSeq(ret, Len(arg[1].key) + 3, Len(ret) - 2)

\* C8: the text formatEnvFile puts between the quotes for a value over
\* backslash, double quote, newline, carriage return, n, r and a is unescaped
\* by the inverse rule to the value itself (so the escape is injective), and
\* holds no raw newline or carriage return and no unescaped double quote.
C8_EscapeRoundTrip ==
  (FormatReturned /\ Len(arg) = 1) =>
    /\ Unescape(QuotedPart) = arg[1].value
    /\ QuoteSafe(QuotedPart)

C8_Witness ==
  /\ FormatReturned /\ Len(arg) = 1
  /\ arg[1].value = <<BS, "n", LF>>
  /\ QuotedPart = <<BS, BS, "n", BS, "n">>

\* C9: formatEnvFile returns one line KEY="escaped_value" and a newline for
\* each entry, in the order the map is enumerated, and nothing else; for the
\* empty map it returns the single newline.
C9_FileFormat ==
  FormatReturned =>
    IF arg = <<>> THEN ret = <<LF>>
    ELSE \E order \in IterationOrders(arg) : ret = LinesOf(order)

C9_Witness ==
  /\ FormatReturned
  /\ Len(arg) = 2
  /\ arg[1].key = <<"1", "0">> /\ arg[2].key = <<"2">>
  /\ arg[1].value = <<DQ, LF>>
  /\ ret = LinesOf(<<arg[2], arg[1]>>)

HexPairChar(a, b) ==
  CASE a = "2" /\ b = "F" -> "/"
    [] a = "2" /\ b = "0" -> " "
    [] a = "2" /\ b = "6" -> "&"
    [] a = "2" /\ b = "5" -> "%"
    [] a = "3" /\ b = "F" -> "?"
    [] a = "2" /\ b = "3" -> "#"
    [] OTHER -> "invalid"

RECURSIVE PctDecode(_)
\* Percent-decoding of one path segment.
PctDecode(s) ==
  IF s = <<>> THEN <<>>
  ELSE IF Head(s) = "%" /\ Len(s) >= 3
    THEN <<HexPairChar(s[2], s[3])>> \o PctDecode(SubSeq(s, 4, Len(s)))
  ELSE <<Head(s)>> \o PctDecode(Tail(s))

RECURSIVE RawChars(_)
\* The characters of a segment that stand for themselves (outside %XX).
RawChars(s) ==
  IF s = <<>> THEN {}
  ELSE IF Head(s) = "%" /\ Len(s) >= 3 THEN RawChars(SubSeq(s, 4, Len(s)))
  ELSE {Head(s)} \cup RawChars(Tail(s))

\* url is apiUrl, the fixed path and three segments that decode to the slugs,
\* with no character of a slug left raw unless it is unreserved.
IsSecretsUrl(url, in) ==
  LET prefix == in.apiUrl \o SecretsPath
      rest == SubSeq(url, Len(prefix) + 1, Len(url))
      segs == SplitAt(rest, "/")
  IN  /\ Len(url) >= Len(prefix)
      /\ SubSeq(url, 1, Len(prefix)) = prefix
      /\ Len(segs) = 3
      /\ PctDecode(segs[1]) = in.org
      /\ PctDecode(segs[2]) = in.project
      /\ PctDecode(segs[3]) = in.environment
      /\ \A k \in 1..Len(segs) : RawChars(segs[k]) \subseteq Unreserved

\* C10: buildUrl returns apiUrl + "/api/v1/secrets/" + the three slugs, each
\* percent-encoded as one path segment; the result is the same for every
\* token; and the URL run() requests is that string.
C10_BuildUrl ==
  /\ (entry = "buildUrl" /\ pc = "returned") =>
       /\ IsSecretsUrl(ret, arg)
       /\ \A t \in {Token1, Token2} : buildUrl([arg EXCEPT !.token = t]) = ret
  /\ entry = "run" =>
       \A i \in Indices("get") :
         /\ IsSecretsUrl(calls[i].a, inputs)
         /\ \A t \in {Token1, Token2} : buildUrl([inputs EXCEPT !.token = t]) = calls[i].a

C10_Witness ==
  /\ entry = "buildUrl" /\ pc = "returned"
  /\ arg.org = <<"/", " ">> /\ arg.project = <<"&", "%">>
  /\ arg.environment = <<"e", "&">>
  /\ ret = DefaultApiUrl \o SecretsPath
             \o <<"%", "2", "F", "%", "2", "0", "/", "%", "2", "6", "%", "2", "5", "/",
                  "e", "%", "2", "6">>

\* The names decryptErrors lists.
DecryptNames == response.result.decryptErrors.list

\* An interpolated part of a message of a run is one of the values the code
\* may show, and is neither the token nor a value of the secrets.
PartAllowed(part) ==
  /\ part.k = "str" =>
       /\ part.v # arg.token
       /\ \A k \in 1..Len(Secrets) : part.v # Secrets[k].value
       /\ \/ part.v = inputs.exportTo
          \/ part.v = pathResolve(inputs.filePath)
          \/ \E n \in 1..Len(DecryptNames) : part.v = DecryptNames[n]
  /\ part.k = "num" =>
       part.v \in {response.statusCode, Len(Secrets), response.result.version}

MessageAllowed(msg) == \A i \in 1..Len(msg) : PartAllowed(msg[i])

\* C11: on every path of every run, each text passed to info or warning and
\* the message of the error run() rejects with interpolate only the export-to
\* value, the status code, the decryptErrors names, the entry count, the
\* version and the resolved file path, never the token or a secret value.
C11_NoSecretInMessages ==
  entry = "run" =>
    /\ MessageAllowed(error)
    /\ \A i \in Indices("info") \cup Indices("warning") : MessageAllowed(calls[i].a)

C11_Witness ==
  /\ entry = "run" /\ pc = "resolved"
  /\ inputs.exportTo = FileMode
  /\ Len(DecryptNames) = 2
  /\ \E k \in 1..Len(Secrets) : Secrets[k].value = <<"a">>
  /\ Count("warning") = 1 /\ Count("info") = 2
  /\ calls[Len(calls) - 1].a =
       <<Lit("Wrote secrets to "), Str(<<"/", "w", "/", "d", "/", ".", "e", "n", "v">>)>>

\* A validated run that returned.
RunDone == Validated /\ pc = "resolved"

DeliveredRunDone == RunDone /\ Len(Secrets) > 0

\* The info calls whose message starts with "Loaded ".
LoadedIndices == {i \in Indices("info") : calls[i].a[1] = Lit("Loaded ")}

\* C12: a run that delivers a non-empty secrets map reports
\* 'Loaded {count} secret{s} from Envshed (v{version}).', count the number of
\* entries (empty values counted), version the payload's, and the suffix
\* empty exactly when count is 1.
C12_SummaryText ==
  DeliveredRunDone =>
    /\ LoadedIndices # {}
    /\ \A i \in LoadedIndices :
         calls[i].a =
           <<Lit("Loaded "), Num(Len(Secrets)), Lit(" secret"),
             Lit(IF Len(Secrets) = 1 THEN "" ELSE "s"),
             Lit(" from Envshed (v"), Num(response.result.version), Lit(").")>>

C12_Witness ==
  /\ DeliveredRunDone
  /\ Len(Secrets) = 1 /\ Secrets[1].value = <<>>
  /\ response.result.version = 7
  /\ calls[Len(calls)].a =
       <<Lit("Loaded "), Num(1), Lit(" secret"), Lit(""),
         Lit(" from Envshed (v"), Num(7), Lit(").")>>

DeliveryIndices == Indices("mask") \cup Indices("export") \cup Indices("write")

OneSummaryLast ==
  /\ Cardinality(LoadedIndices) = 1
  /\ LoadedIndices = {Len(calls)}
  /\ \A i \in DeliveryIndices : i < Len(calls)

\* C13 as stated: every run whose response passes validation, the run over
\* an empty secrets map included, emits exactly one Loaded ... info message,
\* after all delivery side effects.
C13_Original == RunDone => OneSummaryLast

\* C13 as amended: a validated run over a non-empty secrets map emits exactly
\* one Loaded ... info message, after all delivery side effects; a validated
\* run over an empty map returns after its warning and emits no info message.
C13_SummaryReached ==
  RunDone =>
    IF Len(Secrets) > 0 THEN OneSummaryLast
    ELSE Count("info") = 0 /\ calls[Len(calls)].op = "warning"

C13_Witness ==
  /\ RunDone
  /\ Secrets = <<>>
  /\ response.result.version = 7
  /\ Count("info") = 0

\* The mask and export calls of a delivery of the entries es in env mode.
EnvCallsOf(es) ==
  Flatten([i \in 1..Len(es) |->
             (IF es[i].value # <<>> THEN <<Call("mask", es[i].value, <<>>)>> ELSE <<>>)
               \o <<Call("export", es[i].key, es[i].value)>>])

\* The delivery side effects of the trace, in order.
DeliveryCalls == SelectSeq(calls, LAMBDA c : c.op \in {"mask", "export", "write"})

\* Every mask call is directly followed by the export of the masked value.
ExportFollowsMask ==
  \A i \in Indices("mask") :
    /\ i < Len(calls)
    /\ calls[i + 1].op = "export" /\ calls[i + 1].b = calls[i].a

EnvRunDone == DeliveredRunDone /\ inputs.exportTo = EnvMode

\* C14 as stated: a completed env-mode run over a non-empty map exports every
\* entry once, in insertion order, empty values included, each export of a
\* non-empty value directly after the mask of that entry, and writes no file.
C14_Original ==
  EnvRunDone =>
    /\ DeliveryCalls = EnvCallsOf(Secrets)
    /\ ExportFollowsMask

\* C14 as amended: the entries are exported in the order Object.entries
\* enumerates them (array-index keys ascending, then the others in insertion
\* order).
C14_EnvExports ==
  EnvRunDone =>
    /\ \E order \in IterationOrders(Secrets) : DeliveryCalls = EnvCallsOf(order)
    /\ ExportFollowsMask

C14_Witness ==
  /\ EnvRunDone
  /\ Len(Secrets) = 2
  /\ Secrets[1].key = <<"A">> /\ Secrets[1].value = <<>>
  /\ Secrets[2].key = <<"2">> /\ Secrets[2].value = <<"a">>
  /\ DeliveryCalls = <<Call("mask", <<"a">>, <<>>), Call("export", <<"2">>, <<"a">>),
                       Call("export", <<"A">>, <<>>)>>

====
